---- MODULE Spec2Model ----
(***************************************************************************)
(* Model of DatabaseSettingsWidgetDatabaseKey (KeePassXC): the widget that *)
(* edits which factors (password, key file, challenge-response) make up a  *)
(* database's composite key.                                               *)
(*                                                                         *)
(* The widget's own handlers (loadSettings, initialize, saveSettings,      *)
(* discard, addToCompositeKey, markDirty) are translated from              *)
(* src/src/gui/dbsettings/DatabaseSettingsWidgetDatabaseKey.cpp, built     *)
(* with WITH_XC_YUBIKEY.  The collaborators it calls (KeyComponentWidget,  *)
(* PasswordEditWidget, Database, CompositeKey, PasswordHealth) are not in  *)
(* that file and are modelled from their described contracts.              *)
(***************************************************************************)
EXTENDS Integers, Sequences, FiniteSets, TLC

VARIABLES
    m_db,           \* has loadSettings attached a database to the widget
    dbKey,          \* m_db->key(): the database's current composite key
    visiblePage,    \* per component: page shown by its KeyComponentWidget
    componentAdded, \* per component: KeyComponentWidget::m_isComponentAdded
    previousPage,   \* per component: KeyComponentWidget::m_previousPage
    passwordText,   \* text of the password edit field
    m_isDirty,      \* DatabaseSettingsWidgetDatabaseKey::m_isDirty
    minQualityCfg,  \* Config::Security_DatabasePasswordMinimumQuality
    running,        \* FALSE once the process has faulted
    last            \* what the handler that ran last did (calls, result)

vars == <<m_db, dbKey, visiblePage, componentAdded, previousPage, passwordText,
          m_isDirty, minQualityCfg, running, last>>

----------------------------------------------------------------------------
(* Vocabulary *)

Components == {"password", "keyFile", "yubiKey"}

Pages == {"AddNew", "Edit", "LeaveOrRemove"}

\* The type identifier of the factor each component produces.
UUID(c) ==
    CASE c = "password" -> "PasswordKey"
      [] c = "keyFile"  -> "FileKey"
      [] c = "yubiKey"  -> "ChallengeResponseKey"

\* A key object: its type identifier and its identity.  Identities are
\* told apart relative to the database's current key: 0 is an object the
\* current key holds, 1 an object created by the running save attempt.
KeyObject(c, id) == [uuid |-> UUID(c), id |-> id]

\* A null QSharedPointer<Key>.
NullKey == [uuid |-> "null", id |-> 0]

\* QSharedPointer<CompositeKey>::create(): no factor keys, no
\* challenge-response keys.
EmptyCompositeKey == [present |-> TRUE, keys |-> <<>>, challengeResponseKeys |-> <<>>]

\* A null QSharedPointer<CompositeKey>: the database has no key at all.
AbsentKey == [present |-> FALSE, keys |-> <<>>, challengeResponseKeys |-> <<>>]

Range(s) == {s[i] : i \in DOMAIN s}

\* Factor objects of type identifier u held by composite key k.
FactorsOf(k, u) ==
    {f \in Range(k.keys) \cup Range(k.challengeResponseKeys) : f.uuid = u}

\* CompositeKey::addKey
addKey(k, f) == [k EXCEPT !.keys = Append(@, f)]

\* CompositeKey::addChallengeResponseKey
addChallengeResponseKey(k, f) == [k EXCEPT !.challengeResponseKeys = Append(@, f)]

----------------------------------------------------------------------------
(* Password quality *)

\* The texts the user may type into the password field; "" is the empty
\* field, "qN" a password that PasswordHealth scores at quality N.
PasswordTexts == {"", "q1", "q2", "q3"}

\* PasswordHealth(text).quality() as an ordinal 0..4
\* (Bad, Poor, Weak, Good, Excellent).
PasswordHealthQuality(t) ==
    CASE t = ""   -> 0
      [] t = "q1" -> 1
      [] t = "q2" -> 2
      [] t = "q3" -> 3

\* PasswordHealth::Quality::Good
QualityGood == 3

\* Values the configuration may hold, in and out of the valid range.
MinQualityConfigs == {-1, 2, 5}

\* qBound(lo, v, hi)
qBound(lo, v, hi) == IF v < lo THEN lo ELSE IF v > hi THEN hi ELSE v

\* PasswordEditWidget::isEmpty
isEmpty == visiblePage["password"] = "Edit" /\ passwordText = ""

\* PasswordEditWidget::getPasswordQuality
getPasswordQuality == PasswordHealthQuality(passwordText)

----------------------------------------------------------------------------
(* KeyComponentWidget: the per-component page state.  A widget state w is  *)
(* the record [page, added, prev, text] of the four widget variables.      *)

Widgets == [page |-> visiblePage, added |-> componentAdded,
            prev |-> previousPage, text |-> passwordText]

\* QStackedWidget::setCurrentIndex followed by resetComponentEditWidget (the
\* currentChanged slot): a page that becomes Edit gets a fresh, empty edit
\* field.  The previous page is read by cancelEdit only, while the component
\* shows Edit, and is overwritten on every way into Edit: it is kept only
\* while the component shows Edit.
setCurrentIndex(w, c, p) ==
    [w EXCEPT !.page[c] = p,
              !.prev[c] = IF p = "Edit" THEN @ ELSE "AddNew",
              !.text = IF c = "password" /\ p = "Edit" /\ w.page[c] # "Edit"
                       THEN "" ELSE @]

\* KeyComponentWidget::changeVisiblePage
changeVisiblePage(w, c, p) ==
    setCurrentIndex([w EXCEPT !.prev[c] = w.page[c]], c, p)

\* KeyComponentWidget::setComponentAdded, with the updateAddStatus slot its
\* componentAddChanged signal runs.
setComponentAdded(w, c, added) ==
    IF w.added[c] = added
    THEN w
    ELSE setCurrentIndex([w EXCEPT !.added[c] = added], c,
                         IF added THEN "LeaveOrRemove" ELSE "AddNew")

\* initialize() without the lines 119-121 of the challenge-response widget.
initialize_NoYubiKey(w) ==
    setComponentAdded(setComponentAdded(w, "password", FALSE), "keyFile", FALSE)

\* DatabaseSettingsWidgetDatabaseKey::initialize
initialize(w) ==
    setComponentAdded(
        setComponentAdded(
            setComponentAdded(w, "password", FALSE),
            "keyFile", FALSE),
        "yubiKey", FALSE)

\* The components whose factor kind occurs in key k, as loadSettings finds
\* them: password and key file among keys(), challenge-response among
\* challengeResponseKeys().
ComponentsFoundIn(k) ==
    {c \in {"password", "keyFile"} : \E f \in Range(k.keys) : f.uuid = UUID(c)}
    \cup
    {c \in {"yubiKey"} :
        \E f \in Range(k.challengeResponseKeys) : f.uuid = UUID(c)}

\* setComponentAdded(true) on each component of a set (the order does not
\* matter: each call touches its own component only).
RECURSIVE SetAddedAll(_, _)
SetAddedAll(w, cs) ==
    IF cs = {} THEN w
    ELSE LET c == CHOOSE x \in cs : TRUE
         IN SetAddedAll(setComponentAdded(w, c, TRUE), cs \ {c})

\* DatabaseSettingsWidgetDatabaseKey::loadSettings, as a function of the
\* widget state and the database's key.  The base class stores the database
\* and calls initialize().
loadSettings(w, k) ==
    LET w0 == initialize(w)
    IN IF ~k.present \/ k.keys = <<>>
       THEN changeVisiblePage(w0, "password", "Edit")
       ELSE SetAddedAll(w0, ComponentsFoundIn(k))

----------------------------------------------------------------------------
(* saveSettings.  The progress of a save attempt is a context record       *)
(* [ret, calls, newKey, installed]: ret is "running" until the handler     *)
(* returns (or the process faults), calls the collaborator calls made so   *)
(* far with the answers they gave, newKey the draft key, installed whether *)
(* the database took the draft.  A stage maps a context to the set of      *)
(* contexts its collaborators' answers can lead to: the user's dialog      *)
(* choices, each edited component's validation and contribution outcome,   *)
(* and whether the database accepts the key.                               *)

Return(ctx, r, moreCalls) ==
    [ctx EXCEPT !.ret = r, !.calls = @ \o moreCalls]

Called(ctx, moreCalls) ==
    [ctx EXCEPT !.calls = @ \o moreCalls]

\* Lines 131-135 with = in place of |=.
DirtyAtSave_Assigned ==
    \E c \in Components : visiblePage[c] = "Edit"

\* Lines 131-135: the dirty flag after the attempt has looked at the pages.
DirtyAtSave ==
    m_isDirty \/ \E c \in Components : visiblePage[c] = "Edit"

\* Line 137 with the emptiness test negated.
KeyUnchanged_Inverted ==
    dbKey.present /\ dbKey.keys = <<>> /\ ~DirtyAtSave

\* Line 137: the guard of the "key unchanged" early return.
KeyUnchanged ==
    dbKey.present /\ dbKey.keys # <<>> /\ ~DirtyAtSave

\* Lines 148-160: the old factor of type identifier u in list s (the last
\* match wins), or a null pointer.
OldKeyIn(s, u) ==
    LET hits == {i \in DOMAIN s : s[i].uuid = u}
    IN IF hits = {} THEN NullKey
       ELSE s[CHOOSE i \in hits : \A j \in hits : j <= i]

oldPasswordKey == OldKeyIn(dbKey.keys, UUID("password"))

oldFileKey == OldKeyIn(dbKey.keys, UUID("keyFile"))

\* Lines 155-160 with the loop running over keys() instead of
\* challengeResponseKeys().
oldChallengeResponse_FromKeys == OldKeyIn(dbKey.keys, UUID("yubiKey"))

oldChallengeResponse == OldKeyIn(dbKey.challengeResponseKeys, UUID("yubiKey"))

\* The fresh factor an edited component contributes in this attempt.
FreshKey(c) == KeyObject(c, 1)

\* Lines 268-271 and 285-288 without the return of lines 270 and 287.
EditedComponent_NoReturn(c, ctx, contributed) ==
    { Called(ctx, <<"validate:" \o c, "critical:credentials">>),
      Called(ctx, <<"validate:" \o c, "contribute:" \o c, "critical:credentials">>),
      [Called(ctx, <<"validate:" \o c, "contribute:" \o c>>)
          EXCEPT !.newKey = contributed] }

\* Lines 268-271 and 285-288: an edited component is validated and, if valid,
\* asked to contribute; either may fail.  `contributed` is the draft key with
\* the component's fresh factor added.
EditedComponent(c, ctx, contributed) ==
    { Return(ctx, "false", <<"validate:" \o c, "critical:credentials">>),
      Return(ctx, "false",
             <<"validate:" \o c, "contribute:" \o c, "critical:credentials">>),
      [Called(ctx, <<"validate:" \o c, "contribute:" \o c>>)
          EXCEPT !.newKey = contributed] }

\* Lines 273-274 and 290-291: the old factor is carried over.  With a null
\* old factor a build with assertions stops at Q_ASSERT, a build without
\* adds the null pointer.  `carried` is the draft key with oldKey added.
CarriedOver(c, ctx, oldKey, carried) ==
    IF oldKey = NullKey
    THEN { Return(ctx, "fault", <<"Q_ASSERT:" \o c>>),
           [Called(ctx, <<"carryOver:" \o c>>) EXCEPT !.newKey = carried] }
    ELSE { [Called(ctx, <<"carryOver:" \o c>>) EXCEPT !.newKey = carried] }

\* Lines 262-277 with the old factor derived anew instead of re-attached.
addToCompositeKey_Rederived(c, ctx, oldKey) ==
    IF visiblePage[c] = "Edit"
    THEN EditedComponent(c, ctx, addKey(ctx.newKey, FreshKey(c)))
    ELSE IF visiblePage[c] = "LeaveOrRemove"
    THEN CarriedOver(c, ctx, oldKey, addKey(ctx.newKey, FreshKey(c)))
    ELSE {ctx}

\* Lines 262-277 with the old factor kept whenever there is one, whatever
\* page the component shows.
addToCompositeKey_KeepRemoved(c, ctx, oldKey) ==
    IF visiblePage[c] = "Edit"
    THEN EditedComponent(c, ctx, addKey(ctx.newKey, FreshKey(c)))
    ELSE IF oldKey # NullKey
    THEN CarriedOver(c, ctx, oldKey, addKey(ctx.newKey, oldKey))
    ELSE {ctx}

\* Lines 262-277: addToCompositeKey(widget, newKey, QSharedPointer<Key>&).
addToCompositeKey(c, ctx, oldKey) ==
    IF visiblePage[c] = "Edit"
    THEN EditedComponent(c, ctx, addKey(ctx.newKey, FreshKey(c)))
    ELSE IF visiblePage[c] = "LeaveOrRemove"
    THEN CarriedOver(c, ctx, oldKey, addKey(ctx.newKey, oldKey))
    ELSE {ctx}

\* Lines 279-294: addToCompositeKey(widget, newKey,
\* QSharedPointer<ChallengeResponseKey>&).
addToCompositeKeyCR(c, ctx, oldKey) ==
    IF visiblePage[c] = "Edit"
    THEN EditedComponent(c, ctx, addChallengeResponseKey(ctx.newKey, FreshKey(c)))
    ELSE IF visiblePage[c] = "LeaveOrRemove"
    THEN CarriedOver(c, ctx, oldKey, addChallengeResponseKey(ctx.newKey, oldKey))
    ELSE {ctx}

\* Lines 142-160: create the draft key and look up the old factors.  With
\* no key object at all m_db->key() is a null pointer and line 148
\* dereferences it: the process faults, or the loops find no keys.
SnapshotStage ==
    LET ctx == [ret |-> "running", calls |-> <<>>, newKey |-> EmptyCompositeKey,
                installed |-> FALSE]
    IN IF ~dbKey.present
       THEN {Return(ctx, "fault", <<"nullDeref:key">>), ctx}
       ELSE {ctx}

\* Line 163: is the "No password set" confirmation shown.
NoPasswordSet == visiblePage["password"] = "AddNew" \/ isEmpty

\* The ways the user can leave the "No password set" box.
NoPasswordButtons == {"ContinueWithoutPassword", "Cancel", "none"}

\* Lines 162-180 with line 175 testing for the Cancel button instead of
\* for the accept button.
PasswordStage_DefaultAccept(ctx) ==
    IF NoPasswordSet
    THEN { IF btn # "Cancel"
           THEN Called(ctx, <<"exec:NoPasswordSet", "NoPasswordSet=" \o btn>>)
           ELSE Return(ctx, "false", <<"exec:NoPasswordSet", "NoPasswordSet=" \o btn>>)
           : btn \in NoPasswordButtons }
    ELSE addToCompositeKey("password", ctx, oldPasswordKey)

\* Lines 162-180: the password component.
PasswordStage(ctx) ==
    IF NoPasswordSet
    THEN { IF btn = "ContinueWithoutPassword"
           THEN Called(ctx, <<"exec:NoPasswordSet", "NoPasswordSet=" \o btn>>)
           ELSE Return(ctx, "false", <<"exec:NoPasswordSet", "NoPasswordSet=" \o btn>>)
           : btn \in NoPasswordButtons }
    ELSE addToCompositeKey("password", ctx, oldPasswordKey)

\* Line 184: the configured minimum quality, clamped.
minQuality == qBound(0, minQualityCfg, 4)

\* Line 185: the password is below the required minimum.
BelowMinimum == getPasswordQuality < minQuality

\* Line 195: the password is weak or poor.
BelowGood == getPasswordQuality < QualityGood

\* The buttons of the "Weak password" warning.
WeakPasswordButtons == {"ContinueWithWeakPass", "Cancel"}

\* Lines 182-208 without the return of line 205.
QualityStage_CancelIgnored(ctx) ==
    IF ~isEmpty
    THEN IF BelowMinimum
         THEN {Return(ctx, "false", <<"critical:minimumQuality">>)}
         ELSE IF BelowGood
         THEN { Called(ctx, <<"warning:WeakPassword", "WeakPassword=" \o btn>>)
                : btn \in WeakPasswordButtons }
         ELSE {ctx}
    ELSE {ctx}

\* Lines 182-208 without the return of line 191.
QualityStage_RejectionIgnored(ctx) ==
    IF ~isEmpty
    THEN IF BelowMinimum
         THEN {Called(ctx, <<"critical:minimumQuality">>)}
         ELSE IF BelowGood
         THEN { IF btn = "Cancel"
                THEN Return(ctx, "false", <<"warning:WeakPassword", "WeakPassword=" \o btn>>)
                ELSE Called(ctx, <<"warning:WeakPassword", "WeakPassword=" \o btn>>)
                : btn \in WeakPasswordButtons }
         ELSE {ctx}
    ELSE {ctx}

\* Lines 182-208: the minimum-quality check and the weak-password warning.
QualityStage(ctx) ==
    IF ~isEmpty
    THEN IF BelowMinimum
         THEN {Return(ctx, "false", <<"critical:minimumQuality">>)}
         ELSE IF BelowGood
         THEN { IF btn = "Cancel"
                THEN Return(ctx, "false", <<"warning:WeakPassword", "WeakPassword=" \o btn>>)
                ELSE Called(ctx, <<"warning:WeakPassword", "WeakPassword=" \o btn>>)
                : btn \in WeakPasswordButtons }
         ELSE {ctx}
    ELSE {ctx}

\* Lines 210-212: the key file component.
KeyFileStage(ctx) == addToCompositeKey("keyFile", ctx, oldFileKey)

\* Lines 214-218: the challenge-response component.
YubiKeyStage(ctx) == addToCompositeKeyCR("yubiKey", ctx, oldChallengeResponse)

\* Line 220: the assembled key has no factor at all.
NoEncryptionKey(k) == k.keys = <<>> /\ k.challengeResponseKeys = <<>>

\* Lines 220-227 left out.
EmptyKeyStage_Unchecked(ctx) == {ctx}

\* Lines 220-227 placed after the installation of line 229.
EmptyKeyStage_AfterInstall(ctx) ==
    IF NoEncryptionKey(ctx.newKey)
    THEN {[Return(ctx, "false", <<"setKey", "critical:NoEncryptionKey">>)
             EXCEPT !.installed = TRUE]}
    ELSE {ctx}

\* Lines 220-227: refuse a key without factors.
EmptyKeyStage(ctx) ==
    IF NoEncryptionKey(ctx.newKey)
    THEN {Return(ctx, "false", <<"critical:NoEncryptionKey">>)}
    ELSE {ctx}

\* Lines 229-241 without the emit of line 233.
CommitCalls_NoSignal(dirty) ==
    <<"setKey", "reset">>
    \o (IF dirty THEN <<"markAsModified">> ELSE <<>>)
    \o <<"initialize">>

\* Lines 229-241 without the markAsModified of lines 234-236.
CommitCalls_NeverModified(dirty) ==
    <<"setKey", "reset", "editFinished(true)", "initialize">>

\* Lines 229-241: what the attempt calls once the key is assembled.
CommitCalls(dirty) ==
    <<"setKey", "reset", "editFinished(true)">>
    \o (IF dirty THEN <<"markAsModified">> ELSE <<>>)
    \o <<"initialize">>

\* Lines 229-241: install the key and finish; the result of setKey is not
\* looked at.
CommitStage(ctx) ==
    { [Return(ctx, "true", CommitCalls(DirtyAtSave)) EXCEPT !.installed = ok]
      : ok \in BOOLEAN }

\* A statement of saveSettings runs only if no earlier one has returned:
\* `next` are the contexts the statement leads to from ctx.
Step(ctx, next) == IF ctx.ret = "running" THEN next ELSE {ctx}

\* Lines 129-242: the whole attempt, as the contexts it can end with.
saveSettings ==
    IF KeyUnchanged
    THEN {[ret |-> "true", calls |-> <<>>, newKey |-> AbsentKey, installed |-> FALSE]}
    ELSE
        LET s1 == UNION {Step(ctx, PasswordStage(ctx)) : ctx \in SnapshotStage}
            s2 == UNION {Step(ctx, QualityStage(ctx)) : ctx \in s1}
            s3 == UNION {Step(ctx, KeyFileStage(ctx)) : ctx \in s2}
            s4 == UNION {Step(ctx, YubiKeyStage(ctx)) : ctx \in s3}
            s5 == UNION {Step(ctx, EmptyKeyStage(ctx)) : ctx \in s4}
        IN UNION {Step(ctx, CommitStage(ctx)) : ctx \in s5}

\* Lines 244-249: discard() resets the fields and signals the end of the
\* edit.
discard ==
    [ret |-> "void", calls |-> <<"initialize", "editFinished(false)">>,
     newKey |-> AbsentKey, installed |-> FALSE]

\* Did the attempt reach line 229.
CalledSetKey(ctx) == \E i \in DOMAIN ctx.calls : ctx.calls[i] = "setKey"

\* The objects of an installed key are the ones the database's current key
\* holds from then on.
RECURSIVE Held(_)
Held(s) ==
    IF s = <<>> THEN <<>>
    ELSE <<[Head(s) EXCEPT !.id = 0]>> \o Held(Tail(s))

\* Database::setKey(newKey, true, false, false): the database takes the new
\* key, or fails and keeps the old one.
setKey(k, newKey, ok) ==
    IF ok
    THEN [present |-> TRUE, keys |-> Held(newKey.keys),
          challengeResponseKeys |-> Held(newKey.challengeResponseKeys)]
    ELSE k

----------------------------------------------------------------------------
(* The state machine *)

\* What a handler leaves in `last`: its name, its result, the collaborator
\* calls it made, the draft key it built, whether the database took a new
\* key, and the state it started from.
Outcome(op, ctx) ==
    [op |-> op, ret |-> ctx.ret, calls |-> ctx.calls, newKey |-> ctx.newKey,
     installed |-> ctx.installed,
     oldKey |-> dbKey, pagesAt |-> visiblePage, addedAt |-> componentAdded,
     textAt |-> passwordText, dirtyAt |-> m_isDirty]

\* What the constructor and the handlers of the widget's buttons leave in
\* `last`: they call no collaborator.  loadSettings leaves the same record
\* under its own name.
NoOutcome ==
    [op |-> "none", ret |-> "void", calls |-> <<>>, newKey |-> AbsentKey,
     installed |-> FALSE,
     oldKey |-> AbsentKey, pagesAt |-> [c \in Components |-> "AddNew"],
     addedAt |-> [c \in Components |-> FALSE], textAt |-> "", dirtyAt |-> FALSE]

SetWidgets(w) ==
    /\ visiblePage' = w.page
    /\ componentAdded' = w.added
    /\ previousPage' = w.prev
    /\ passwordText' = w.text

\* A key holding the factors of the components cs, as the database was
\* opened with them.
OpenedKey(cs) ==
    [present |-> TRUE,
     keys |-> (IF "password" \in cs THEN <<KeyObject("password", 0)>> ELSE <<>>)
              \o (IF "keyFile" \in cs THEN <<KeyObject("keyFile", 0)>> ELSE <<>>),
     challengeResponseKeys |->
              IF "yubiKey" \in cs THEN <<KeyObject("yubiKey", 0)>> ELSE <<>>]

\* The databases the widget may be opened on: no key object (a new
\* database), an empty key, a key of a challenge-response factor alone, and
\* a key of all three factor kinds (removing factors from it gives the other
\* combinations).
InitialKeys ==
    {AbsentKey, OpenedKey({}), OpenedKey({"yubiKey"}), OpenedKey(Components)}

\* The state the constructor leaves (lines 35-70).
Init ==
    /\ m_db = FALSE
    /\ dbKey \in InitialKeys
    /\ visiblePage = [c \in Components |-> "AddNew"]
    /\ componentAdded = [c \in Components |-> FALSE]
    /\ previousPage = [c \in Components |-> "AddNew"]
    /\ passwordText = ""
    /\ m_isDirty = FALSE
    /\ minQualityCfg \in MinQualityConfigs
    /\ running = TRUE
    /\ last = NoOutcome

\* loadSettings(db), lines 74-112.
LoadSettings ==
    /\ running
    /\ m_db' = TRUE
    /\ SetWidgets(loadSettings(Widgets, dbKey))
    /\ last' = [NoOutcome EXCEPT !.op = "loadSettings"]
    /\ UNCHANGED <<dbKey, m_isDirty, minQualityCfg, running>>

\* The user presses a component's "add" button: KeyComponentWidget::doAdd.
ClickAdd(c) ==
    /\ running /\ m_db
    /\ visiblePage[c] = "AddNew"
    /\ SetWidgets(changeVisiblePage(Widgets, c, "Edit"))
    /\ last' = NoOutcome
    /\ UNCHANGED <<m_db, dbKey, m_isDirty, minQualityCfg, running>>

\* The user presses a component's "change" button: KeyComponentWidget::doEdit.
ClickChange(c) ==
    /\ running /\ m_db
    /\ visiblePage[c] = "LeaveOrRemove"
    /\ SetWidgets(changeVisiblePage(Widgets, c, "Edit"))
    /\ last' = NoOutcome
    /\ UNCHANGED <<m_db, dbKey, m_isDirty, minQualityCfg, running>>

\* The user presses a component's "remove" button: KeyComponentWidget::doRemove
\* and, through the connections of lines 107-110, markDirty (lines 296-299).
ClickRemove(c) ==
    /\ running /\ m_db
    /\ visiblePage[c] = "LeaveOrRemove"
    /\ SetWidgets(changeVisiblePage(Widgets, c, "AddNew"))
    /\ m_isDirty' = TRUE
    /\ last' = NoOutcome
    /\ UNCHANGED <<m_db, dbKey, minQualityCfg, running>>

\* The user presses a component's "cancel" button:
\* KeyComponentWidget::cancelEdit.
ClickCancel(c) ==
    /\ running /\ m_db
    /\ visiblePage[c] = "Edit"
    /\ SetWidgets(setCurrentIndex(Widgets, c, previousPage[c]))
    /\ last' = NoOutcome
    /\ UNCHANGED <<m_db, dbKey, m_isDirty, minQualityCfg, running>>

\* The user types into the password field.
TypePassword(t) ==
    /\ running /\ m_db
    /\ visiblePage["password"] = "Edit"
    /\ t # passwordText
    /\ passwordText' = t
    /\ last' = NoOutcome
    /\ UNCHANGED <<m_db, dbKey, visiblePage, componentAdded, previousPage,
                   m_isDirty, minQualityCfg, running>>

\* saveSettings(), lines 129-242.
SaveSettings ==
    /\ running /\ m_db
    /\ \E ctx \in saveSettings :
        /\ m_isDirty' = DirtyAtSave
        /\ dbKey' = IF CalledSetKey(ctx)
                    THEN setKey(dbKey, ctx.newKey, ctx.installed)
                    ELSE dbKey
        /\ SetWidgets(IF CalledSetKey(ctx) THEN initialize(Widgets) ELSE Widgets)
        /\ running' = (ctx.ret # "fault")
        /\ last' = Outcome("saveSettings", ctx)
    /\ UNCHANGED <<m_db, minQualityCfg>>

\* discard(), lines 244-249.
Discard ==
    /\ running /\ m_db
    /\ SetWidgets(initialize(Widgets))
    /\ last' = Outcome("discard", discard)
    /\ UNCHANGED <<m_db, dbKey, m_isDirty, minQualityCfg, running>>

Next ==
    \/ LoadSettings
    \/ \E c \in Components : ClickAdd(c)
    \/ \E c \in Components : ClickChange(c)
    \/ \E c \in Components : ClickRemove(c)
    \/ \E c \in Components : ClickCancel(c)
    \/ \E t \in PasswordTexts : TypePassword(t)
    \/ SaveSettings
    \/ Discard

Spec == Init /\ [][Next]_vars

----------------------------------------------------------------------------
(* Properties.  They are stated on `last`, the record of the handler that  *)
(* ran last: what it started from, what it called, what it returned.       *)

Saved == last.op = "saveSettings"

Has(call) == \E i \in DOMAIN last.calls : last.calls[i] = call

CountOf(call) == Cardinality({i \in DOMAIN last.calls : last.calls[i] = call})

Before(callA, callB) ==
    \A i, j \in DOMAIN last.calls :
        last.calls[i] = callA /\ last.calls[j] = callB => i < j

FactorCount(k) == Len(k.keys) + Len(k.challengeResponseKeys)

\* No component showed the Edit page when the handler started.
NoEditAt == \A c \in Components : last.pagesAt[c] # "Edit"

\* C1: whenever saveSettings reaches setKey, the key it hands over holds at
\* least one factor key or challenge-response key, and so does the
\* database's key once it is installed.
C1_InstalledKeyHasFactor ==
    Saved /\ Has("setKey") =>
        /\ FactorCount(last.newKey) >= 1
        /\ last.installed => FactorCount(dbKey) >= 1

\* C1: a key was installed over an old key that had no factor.
C1_Witness ==
    Saved /\ last.installed /\ FactorCount(last.oldKey) = 0

\* C2: a save attempt that returns false has called neither setKey nor the
\* quick-unlock reset nor markAsModified, and the database's key is the one
\* it had before the attempt.
C2_AbortLeavesDatabaseIntact ==
    Saved /\ last.ret = "false" =>
        /\ ~Has("setKey") /\ ~Has("reset") /\ ~Has("markAsModified")
        /\ ~last.installed
        /\ dbKey = last.oldKey

\* C2: an attempt on a database with a key was refused for lack of factors.
C2_Witness ==
    /\ Saved /\ last.ret = "false" /\ Has("critical:NoEncryptionKey")
    /\ FactorCount(last.oldKey) >= 1

\* C3: the quick-unlock reset happens at most once in a save attempt, after
\* setKey, and only if setKey installed the key.
C3_ResetOnlyAfterInstall ==
    Saved /\ Has("reset") =>
        /\ CountOf("reset") = 1
        /\ Before("setKey", "reset")
        /\ last.installed

\* C4 as stated: with no component in Edit and an old key that holds a factor
\* of any kind, the attempt returns true and does not call setKey.
C4_NoEditNeverInstalls ==
    Saved /\ NoEditAt /\ last.oldKey.present /\ FactorCount(last.oldKey) >= 1 =>
        last.ret = "true" /\ ~Has("setKey")

\* C4 amended: with no component in Edit, the dirty flag not set and an old
\* key that holds a factor of any kind, the attempt does not call setKey and
\* the key stays; if the old key holds a factor key (password or key file)
\* the attempt returns true without calling anything.
C4_CleanNoEditNeverInstalls ==
    Saved /\ NoEditAt /\ ~last.dirtyAt
          /\ last.oldKey.present /\ FactorCount(last.oldKey) >= 1 =>
        /\ ~Has("setKey") /\ dbKey = last.oldKey
        /\ last.oldKey.keys # <<>> => last.ret = "true" /\ last.calls = <<>>

\* C4: the early return was taken on a key with factors.
C4_Witness ==
    /\ Saved /\ NoEditAt /\ ~last.dirtyAt /\ last.oldKey.keys # <<>>
    /\ last.ret = "true" /\ last.calls = <<>>

\* The password field held a password below the clamped minimum quality
\* when the handler started.
BelowMinimumAt ==
    /\ last.pagesAt["password"] = "Edit" /\ last.textAt # ""
    /\ PasswordHealthQuality(last.textAt) < qBound(0, minQualityCfg, 4)

\* C5: with the password component in Edit and a password below the clamped
\* minimum quality, the attempt returns false and installs nothing.
C5_BelowMinimumIsCancelled ==
    Saved /\ BelowMinimumAt =>
        last.ret = "false" /\ ~Has("setKey") /\ dbKey = last.oldKey

\* The password component showed AddNew, or Edit with an empty field, when
\* the handler started.
NoPasswordAt ==
    \/ last.pagesAt["password"] = "AddNew"
    \/ last.pagesAt["password"] = "Edit" /\ last.textAt = ""

\* The attempt went on after the password component (lines 182-241).
PastPasswordStage ==
    \E i \in DOMAIN last.calls :
        last.calls[i] \in {"critical:minimumQuality", "warning:WeakPassword",
                           "validate:keyFile", "carryOver:keyFile",
                           "validate:yubiKey", "carryOver:yubiKey",
                           "critical:NoEncryptionKey", "setKey"}

\* C6: an attempt that gets past line 137 with the password component in
\* AddNew, or in Edit with empty input, goes on after the password component
\* (and returns true) only if the user pressed "Continue without password";
\* any other way out of the box makes it return false at once, with the
\* database's key as it was.
C6_NoPasswordNeedsAcceptance ==
    Saved /\ NoPasswordAt /\ last.calls # <<>> =>
        /\ PastPasswordStage \/ last.ret = "true" =>
              Has("NoPasswordSet=ContinueWithoutPassword")
        /\ Has("exec:NoPasswordSet") /\ ~Has("NoPasswordSet=ContinueWithoutPassword") =>
              /\ last.ret = "false" /\ ~PastPasswordStage
              /\ dbKey = last.oldKey

\* C6: the user declined the confirmation for an empty password field.
C6_Witness ==
    /\ Saved /\ last.pagesAt["password"] = "Edit" /\ last.textAt = ""
    /\ Has("NoPasswordSet=Cancel") /\ last.ret = "false"

\* The password field held a password at or above the clamped minimum but
\* below Good when the handler started.
WeakAt ==
    /\ last.pagesAt["password"] = "Edit" /\ last.textAt # ""
    /\ PasswordHealthQuality(last.textAt) >= qBound(0, minQualityCfg, 4)
    /\ PasswordHealthQuality(last.textAt) < QualityGood

\* C7: with such a password setKey is reached only after the user chose
\* "continue with weak password"; Cancel at the warning makes the attempt
\* return false with nothing installed.
C7_WeakPasswordNeedsAcknowledgment ==
    Saved /\ WeakAt =>
        /\ Has("setKey") => Has("WeakPassword=ContinueWithWeakPass")
        /\ Has("WeakPassword=Cancel") =>
              last.ret = "false" /\ ~Has("setKey") /\ dbKey = last.oldKey

\* C7: a weak password was installed after the acknowledgment.
C7_Witness ==
    Saved /\ WeakAt /\ last.installed /\ Has("WeakPassword=ContinueWithWeakPass")

\* The list of a key that holds the factors of component c.
ListOf(k, c) == IF c = "yubiKey" THEN k.challengeResponseKeys ELSE k.keys

\* C8: in a save that installs a new key, a component that showed
\* LeaveOrRemove, was marked added and has an old factor contributes that
\* very object, and no other of its kind, to the new key.
C8_CarriedOverByIdentity ==
    Saved /\ last.installed =>
        \A c \in Components :
            /\ last.pagesAt[c] = "LeaveOrRemove" /\ last.addedAt[c]
            /\ FactorsOf(last.oldKey, UUID(c)) # {}
            => /\ FactorsOf(last.newKey, UUID(c)) = FactorsOf(last.oldKey, UUID(c))
               /\ \A f \in FactorsOf(last.newKey, UUID(c)) :
                     f \in Range(ListOf(last.newKey, c)) /\ f # FreshKey(c)

\* C8: a key was installed that carries over an old factor next to a fresh
\* one.
C8_Witness ==
    /\ Saved /\ last.installed
    /\ \E c \in Components :
          /\ last.pagesAt[c] = "LeaveOrRemove" /\ last.addedAt[c]
          /\ OldKeyIn(ListOf(last.oldKey, c), UUID(c)) \in Range(ListOf(last.newKey, c))
    /\ \E d \in Components : FreshKey(d) \in Range(ListOf(last.newKey, d))

\* The component contributes a factor: it showed LeaveOrRemove, or Edit
\* (with a non-empty field, for the password).
ContributesAt(c) ==
    \/ last.pagesAt[c] = "LeaveOrRemove"
    \/ last.pagesAt[c] = "Edit" /\ (c = "password" => last.textAt # "")

\* C9: in a save that installs a new key, the new key (and then the
\* database's key) holds a factor of a kind exactly if that kind's component
\* showed Edit with input or LeaveOrRemove; a component in AddNew
\* contributes nothing.
C9_FactorsFollowPages ==
    Saved /\ last.installed =>
        \A c \in Components :
            /\ FactorsOf(last.newKey, UUID(c)) # {} <=> ContributesAt(c)
            /\ FactorsOf(dbKey, UUID(c)) # {} <=> ContributesAt(c)

\* C9: the key file was removed and the untouched password carried over; the
\* installed key holds the password alone.
C9_Witness ==
    /\ Saved /\ last.installed
    /\ last.pagesAt["password"] = "LeaveOrRemove"
    /\ last.pagesAt["keyFile"] = "AddNew" /\ last.addedAt["keyFile"]
    /\ FactorsOf(last.oldKey, UUID("keyFile")) # {}
    /\ dbKey.keys = <<KeyObject("password", 0)>>
    /\ dbKey.challengeResponseKeys = <<>>

\* C10: discard() leaves the database's key as it was, calls neither setKey
\* nor the quick-unlock reset nor markAsModified, marks every component not
\* added and signals editFinished(false).
C10_DiscardTouchesNoKey ==
    last.op = "discard" =>
        /\ dbKey = last.oldKey
        /\ ~Has("setKey") /\ ~Has("reset") /\ ~Has("markAsModified")
        /\ \A c \in Components : ~componentAdded[c]
        /\ CountOf("editFinished(false)") = 1

\* C10: an edit on a database with a key, with a component marked added and
\* another being edited, was discarded.
C10_Witness ==
    /\ last.op = "discard" /\ FactorCount(last.oldKey) >= 1
    /\ \E c \in Components : last.addedAt[c]
    /\ \E c \in Components : last.pagesAt[c] = "Edit"

\* The handler that ran last was a save attempt that returned, or a discard.
Finished ==
    \/ Saved /\ last.ret \in {"true", "false"}
    \/ last.op = "discard"

\* C11: every save attempt that returns and every discard emits exactly one
\* editFinished: editFinished(true) when the save returned true, and
\* editFinished(false) when it was cancelled or the edit was discarded.
C11_AlwaysOneEditFinished ==
    Finished =>
        /\ CountOf("editFinished(true)") + CountOf("editFinished(false)") = 1
        /\ Has("editFinished(true)") <=> (Saved /\ last.ret = "true")

\* C11: a save attempt emits editFinished(true) exactly once when it reaches
\* setKey and emits no editFinished otherwise (neither when it is cancelled
\* nor on the "key unchanged" early return); it never emits
\* editFinished(false).  A discard emits editFinished(false) exactly once and
\* never editFinished(true).
C11_EditFinishedOnInstallOrDiscard ==
    /\ Saved =>
        /\ CountOf("editFinished(true)") = (IF Has("setKey") THEN 1 ELSE 0)
        /\ CountOf("editFinished(false)") = 0
        /\ Has("setKey") <=> (last.ret = "true" /\ last.calls # <<>>)
    /\ last.op = "discard" =>
        /\ CountOf("editFinished(false)") = 1
        /\ CountOf("editFinished(true)") = 0

\* C11: a save attempt with an edited component reached setKey and emitted
\* editFinished(true) once.
C11_Witness ==
    /\ Saved /\ ~NoEditAt /\ Has("setKey") /\ last.ret = "true"
    /\ CountOf("editFinished(true)") = 1

\* The save attempt started on a database without a key object, with the
\* password component in Edit and an empty password field.
EmptyPasswordOnAbsentKeyAt ==
    /\ Saved /\ ~last.oldKey.present
    /\ last.pagesAt["password"] = "Edit" /\ last.textAt = ""

\* C12: on a database without a key object, a save attempt with an empty
\* password does not fault on the absent old key: it reaches the "No
\* password set" warning, and when the user declines the warning it returns
\* false and no key is installed.
C12_AbsentKeyDeclineIsCancelled ==
    EmptyPasswordOnAbsentKeyAt =>
        /\ last.ret # "fault"
        /\ Has("exec:NoPasswordSet")
        /\ ~Has("NoPasswordSet=ContinueWithoutPassword") =>
              last.ret = "false" /\ ~Has("setKey") /\ dbKey = last.oldKey

\* C13: a save attempt that reaches setKey reports a change exactly when the
\* dirty flag is set and marks the database modified exactly when the dirty
\* flag is set; no save attempt marks the database modified while the dirty
\* flag is clear.  (The attempt leaves the flag as it found it at line 137.)
C13_ModifiedFollowsDirty ==
    Saved =>
        /\ Has("setKey") =>
              /\ Has("editFinished(true)") <=> m_isDirty
              /\ Has("markAsModified") <=> m_isDirty
        /\ Has("markAsModified") => m_isDirty /\ Has("setKey")

\* C13: a save attempt made dirty by a remove click alone installed a key,
\* signalled editFinished(true) and marked the database modified.
C13_Witness ==
    /\ Saved /\ last.installed /\ NoEditAt /\ last.dirtyAt /\ m_isDirty
    /\ Has("editFinished(true)") /\ CountOf("markAsModified") = 1

\* The quality check of lines 182-208 stopped the attempt: the password was
\* below the minimum, or the user cancelled at the weak-password warning.
GateStopped ==
    Saved /\ (Has("critical:minimumQuality") \/ Has("WeakPassword=Cancel"))

\* C14: when the quality check stops the attempt, nothing has been added to
\* the draft key of that attempt.
C14_NothingAssembledBeforeGate ==
    GateStopped => FactorCount(last.newKey) = 0

\* C14: when the quality check stops the attempt, the attempt returns false
\* without reaching the key file, the challenge-response component or
\* setKey, and the database's key stands; the draft key it drops holds what
\* the password component added on line 178 and nothing else: the fresh
\* password factor if the component showed Edit, the old password factor if
\* it showed LeaveOrRemove, nothing if it showed AddNew.
C14_OnlyPasswordAssembledBeforeGate ==
    GateStopped =>
        /\ last.ret = "false" /\ ~Has("setKey") /\ dbKey = last.oldKey
        /\ \A c \in {"keyFile", "yubiKey"} :
              ~Has("validate:" \o c) /\ ~Has("carryOver:" \o c)
        /\ last.newKey.challengeResponseKeys = <<>>
        /\ last.newKey.keys =
              IF last.pagesAt["password"] = "Edit"
              THEN <<FreshKey("password")>>
              ELSE IF last.pagesAt["password"] = "LeaveOrRemove"
              THEN <<OldKeyIn(last.oldKey.keys, UUID("password"))>>
              ELSE <<>>

\* C14: a typed password below the minimum quality was rejected after its
\* factor had been added to the draft key.
C14_Witness ==
    /\ GateStopped /\ Has("critical:minimumQuality")
    /\ last.pagesAt["password"] = "Edit"
    /\ Before("contribute:password", "critical:minimumQuality")
    /\ last.newKey.keys = <<FreshKey("password")>>

\* The attempt got past line 137 with the password component untouched: it
\* showed LeaveOrRemove, was marked added and the old key holds a password
\* factor.
UntouchedPasswordAt ==
    /\ Saved /\ last.calls # <<>>
    /\ last.pagesAt["password"] = "LeaveOrRemove" /\ last.addedAt["password"]
    /\ FactorsOf(last.oldKey, UUID("password")) # {}

\* C15: a save attempt with the password component untouched is neither
\* rejected for the minimum quality nor interrupted by the weak-password or
\* the no-password box, whatever the configured minimum; unless another
\* component fails to validate it returns true and hands the old password
\* factor to setKey.
C15_UntouchedPasswordSkipsGate ==
    UntouchedPasswordAt =>
        /\ ~Has("critical:minimumQuality")
        /\ ~Has("warning:WeakPassword")
        /\ ~Has("exec:NoPasswordSet")
        /\ ~Has("critical:credentials") =>
              /\ last.ret = "true" /\ Has("setKey")
              /\ OldKeyIn(last.oldKey.keys, UUID("password")) \in Range(last.newKey.keys)

\* What the log holds for component c.
ComponentCalls(c) ==
    {"validate:" \o c, "contribute:" \o c, "carryOver:" \o c, "Q_ASSERT:" \o c}

\* What the log holds for the password component and its checks (lines
\* 162-208).
PasswordStageCalls ==
    ComponentCalls("password")
    \cup {"exec:NoPasswordSet", "critical:minimumQuality", "warning:WeakPassword"}
    \cup {"NoPasswordSet=" \o btn : btn \in NoPasswordButtons}
    \cup {"WeakPassword=" \o btn : btn \in WeakPasswordButtons}

\* The log entries after which saveSettings returns false.
FailureCalls ==
    {"critical:credentials", "critical:minimumQuality", "critical:NoEncryptionKey",
     "NoPasswordSet=Cancel", "NoPasswordSet=none", "WeakPassword=Cancel"}

\* C16: a save attempt handles the password component and its checks first,
\* then the key file, then the challenge-response component; a failure is
\* the last thing the attempt does, so no later component is validated or
\* contributes after it; the challenge-response component is handled only
\* after an edited password and an edited key file have contributed.
C16_ComponentsInOrder ==
    Saved =>
        /\ \A i, j \in DOMAIN last.calls :
              /\ last.calls[i] \in PasswordStageCalls
                 /\ last.calls[j] \in ComponentCalls("keyFile") \cup ComponentCalls("yubiKey")
                 => i < j
              /\ last.calls[i] \in ComponentCalls("keyFile")
                 /\ last.calls[j] \in ComponentCalls("yubiKey")
                 => i < j
        /\ \A i \in DOMAIN last.calls :
              last.calls[i] \in FailureCalls =>
                  i = Len(last.calls) /\ last.ret = "false"
        /\ (\E i \in DOMAIN last.calls : last.calls[i] \in ComponentCalls("yubiKey")) =>
              /\ last.pagesAt["keyFile"] = "Edit" => Has("contribute:keyFile")
              /\ last.pagesAt["password"] = "Edit" /\ last.textAt # "" =>
                    Has("contribute:password")
              /\ Has("warning:WeakPassword") => Has("WeakPassword=ContinueWithWeakPass")

\* C16: all three components were edited; the challenge-response component
\* failed to validate after the password and the key file had contributed.
C16_Witness ==
    /\ Saved /\ last.ret = "false"
    /\ Has("contribute:password") /\ Has("contribute:keyFile")
    /\ Has("validate:yubiKey") /\ ~Has("contribute:yubiKey")
    /\ Has("critical:credentials")

\* The old factor of component c in key k, or a null pointer.
OldFactorOf(k, c) == OldKeyIn(ListOf(k, c), UUID(c))

\* C17: whenever a save attempt carries a component over (the component
\* shows LeaveOrRemove on lines 272 and 289), the old factor it found on
\* lines 148-160 is not null: the assertion of lines 273 and 290 never
\* fails, and no null factor is added to the draft key or to the database's
\* key.
C17_CarryOverNeverNull ==
    /\ \A c \in Components :
          visiblePage[c] = "LeaveOrRemove" =>
              dbKey.present /\ OldFactorOf(dbKey, c) # NullKey
    /\ Saved =>
          /\ \A c \in Components :
                /\ ~Has("Q_ASSERT:" \o c)
                /\ Has("carryOver:" \o c) => OldFactorOf(last.oldKey, c) # NullKey
          /\ NullKey \notin Range(last.newKey.keys)
          /\ NullKey \notin Range(last.newKey.challengeResponseKeys)
    /\ NullKey \notin Range(dbKey.keys)
    /\ NullKey \notin Range(dbKey.challengeResponseKeys)

\* C17: a save attempt carried over the old factors of all three components
\* and installed them.
C17_Witness ==
    /\ Saved /\ last.installed
    /\ \A c \in Components :
          Has("carryOver:" \o c) /\ OldFactorOf(last.oldKey, c) # NullKey

\* C18: right after loadSettings every component is marked added exactly
\* when the database's key holds a factor of its kind, also when the key
\* holds a challenge-response factor and nothing else.
C18_AddedIffFactorPresent ==
    last.op = "loadSettings" =>
        \A c \in Components :
            componentAdded[c] <=> FactorsOf(dbKey, UUID(c)) # {}

\* C19: no step clears the dirty flag once it is set, and a save attempt
\* that starts with the flag set goes past the "key unchanged" return of
\* line 137 even with no component in Edit: it shows a box, handles a
\* component or faults, and never returns true without having called
\* setKey.
C19_DirtyIsMonotone ==
    /\ [][m_isDirty => m_isDirty']_vars
    /\ [](Saved /\ last.dirtyAt =>
             /\ m_isDirty
             /\ last.calls # <<>>
             /\ last.ret = "true" => Has("setKey"))

\* C19: a save attempt that started with the flag set, on a key with a
\* factor key and with no component in Edit, went past line 137 and reached
\* setKey; the flag is still set.
C19_Witness ==
    /\ Saved /\ last.dirtyAt /\ m_isDirty /\ NoEditAt
    /\ last.oldKey.present /\ last.oldKey.keys # <<>>
    /\ last.calls # <<>> /\ Has("setKey")

====
